---- MODULE Spec2Model ----
(***************************************************************************)
(* Model of arborist (src/src/arborist/git.py, src/src/arborist/cli.py)    *)
(* and of the older git_cleanup command line (src/src/git_cleanup/cli.py). *)
(*                                                                         *)
(* The repository on disk and its remote "origin" are the state.  A commit *)
(* is a number; a ref is the set of commits reachable from its tip, so     *)
(* "A is an ancestor of B" is A \subseteq B and `rev-list --count A..B` is *)
(* Cardinality(B \ A).  Branch names and protect patterns are sequences of *)
(* one-character strings, so that prefix tests, prefix stripping and glob  *)
(* matching are computed as the code computes them.                        *)
(***************************************************************************)
EXTENDS Integers, Sequences, FiniteSets, TLC

VARIABLES repo, last

vars == <<repo, last>>

(***************************************************************************)
(* Bounds                                                                  *)
(***************************************************************************)
\* number of commits that may exist (commit 1 is the initial commit)
MaxCommits == 3

(***************************************************************************)
(* Names                                                                   *)
(***************************************************************************)
main == <<"m", "a", "i", "n">>
fa == <<"f", "/", "a">>
originPrefix == <<"o", "r", "i", "g", "i", "n", "/">>
\* the entry `git branch --format=%(refname:short)` prints for a detached
\* HEAD, "(HEAD detached at <sha>)", abbreviated
detachedEntry == <<"(", "H", "E", "A", "D", ")">>
\* get_current_branch_name returns "" for a detached HEAD
NoBranch == <<>>

\* refs/heads/origin and refs/remotes/origin/HEAD by their short names
originName == <<"o", "r", "i", "g", "i", "n">>
originHEAD == <<"o", "r", "i", "g", "i", "n", "/", "H", "E", "A", "D">>
headsPrefix == <<"h", "e", "a", "d", "s", "/">>
remotesPrefix == <<"r", "e", "m", "o", "t", "e", "s", "/">>

FeatureNames == {fa}
ShortNames == {main} \cup FeatureNames

Origin(n) == originPrefix \o n

\* BranchStatus
MERGED == "merged"
UNMERGED == "unmerged"
GONE == "gone"
EMPTY == ""

(***************************************************************************)
(* String helpers                                                          *)
(***************************************************************************)
startswith(s, p) == Len(s) >= Len(p) /\ SubSeq(s, 1, Len(p)) = p

endswith(s, p) == Len(s) >= Len(p) /\ SubSeq(s, Len(s) - Len(p) + 1, Len(s)) = p

\* s.split("/", 1)[1], for an s that contains "/"
RECURSIVE AfterFirstSlash(_)
AfterFirstSlash(s) ==
    IF s = <<>> THEN <<>>
    ELSE IF Head(s) = "/" THEN Tail(s)
    ELSE AfterFirstSlash(Tail(s))

\* str.strip() of blanks
RECURSIVE lstrip(_)
lstrip(s) == IF s # <<>> /\ Head(s) = " " THEN lstrip(Tail(s)) ELSE s

RECURSIVE rstrip(_)
rstrip(s) ==
    IF s # <<>> /\ s[Len(s)] = " " THEN rstrip(SubSeq(s, 1, Len(s) - 1)) ELSE s

strip(s) == rstrip(lstrip(s))

\* fnmatch.fnmatch(name, pat) for patterns made of literals, "*" and "?"
RECURSIVE fnmatch(_, _)
fnmatch(name, pat) ==
    IF pat = <<>> THEN name = <<>>
    ELSE IF Head(pat) = "*"
         THEN fnmatch(name, Tail(pat))
              \/ (name # <<>> /\ fnmatch(Tail(name), pat))
    ELSE /\ name # <<>>
         /\ (Head(pat) = "?" \/ Head(pat) = Head(name))
         /\ fnmatch(Tail(name), Tail(pat))

(***************************************************************************)
(* The version-control collaborator: queries                               *)
(***************************************************************************)
\* repo.heads      local branches, name -> reachable commits
\* repo.upstream   branch.<name>.remote: "none", "origin" (merge =
\*                 refs/heads/<name>) or "." (merge = refs/heads/main)
\* repo.remotes    remote-tracking refs origin/<name>
\* repo.server     the branches of the remote repository
\* repo.lastSync   the upstream tip of <name> at the last sync
\* repo.current    checked-out branch, NoBranch when detached
\* repo.ncommits   number of commits created so far

\* commits of a local branch never pushed: not reachable from where its
\* upstream was at the last sync
Unpushed(r, n) == r.heads[n] \ r.lastSync[n]

\* e's value, computed once, handed to F
With(e, F(_)) == CHOOSE y \in {F(x) : x \in {e}} : TRUE

Without(f, k) == [x \in DOMAIN f \ {k} |-> f[x]]

\* `git rev-parse <name>`: refs/<name>, refs/tags/<name>, refs/heads/<name>,
\* refs/remotes/<name>, in this order
Resolves(r, name) ==
    \/ name \in r.tags
    \/ name \in DOMAIN r.heads
    \/ startswith(name, originPrefix) /\ AfterFirstSlash(name) \in DOMAIN r.remotes
    \/ /\ startswith(name, remotesPrefix \o originPrefix)
       /\ AfterFirstSlash(AfterFirstSlash(name)) \in DOMAIN r.remotes

\* the commits of a name the listings print (never the name of a tag)
rev_parse(r, name) ==
    IF name \in DOMAIN r.heads THEN r.heads[name]
    ELSE IF startswith(name, remotesPrefix)
    THEN r.remotes[AfterFirstSlash(AfterFirstSlash(name))]
    ELSE r.remotes[AfterFirstSlash(name)]

\* %(refname:short): the shortest unambiguous name of a ref
LocalShort(r, n) == IF n \in r.tags THEN headsPrefix \o n ELSE n

RemoteShort(r, x) == IF x \in r.tags THEN remotesPrefix \o x ELSE x

\* `git branch --format=%(refname:short)`
LocalListing(r) ==
    (IF r.current = NoBranch THEN {detachedEntry} ELSE {})
    \cup {LocalShort(r, n) : n \in DOMAIN r.heads}
    \cup (IF originName \notin r.special THEN {}
          ELSE IF originHEAD \in r.special THEN {headsPrefix \o originName}
          ELSE {originName})

\* `git branch -r --format=%(refname:short)`
RemoteListing(r) ==
    {RemoteShort(r, Origin(n)) : n \in DOMAIN r.remotes}
    \cup (IF originHEAD \in r.special THEN {originHEAD} ELSE {})

\* `git branch -vv --list <b>` shows "[<upstream>: gone]": the branch has an
\* upstream configured and the upstream ref does not exist
MarkedGone(r, b) ==
    \/ r.upstream[b] = "origin" /\ b \notin DOMAIN r.remotes
    \/ r.upstream[b] = "." /\ main \notin DOMAIN r.heads

(***************************************************************************)
(* GitRepo (src/src/arborist/git.py)                                       *)
(***************************************************************************)
get_current_branch_name(r) == r.current

\* a pull that fast-forwards by one commit only
PullCurrent_oneCommit(fetched) ==
    LET cur == get_current_branch_name(fetched)
    IN  IF cur = NoBranch \/ fetched.upstream[cur] = "none" THEN fetched
        ELSE IF cur \notin DOMAIN fetched.server THEN fetched
        ELSE LET ours == fetched.heads[cur]
                 theirs == fetched.server[cur]
             IN  IF theirs \subseteq ours THEN fetched
                 ELSE IF ours \subseteq theirs
                      THEN [fetched EXCEPT !.heads[cur] =
                               ours \cup {CHOOSE c \in theirs \ ours :
                                             \A d \in theirs \ ours : c <= d}]
                 ELSE IF fetched.ncommits < MaxCommits
                      THEN [fetched EXCEPT
                               !.heads[cur] = ours \cup theirs \cup {fetched.ncommits + 1},
                               !.ncommits = @ + 1]
                 ELSE fetched

\* remote.fetch(); git remote update origin --prune; git pull origin <current>
PullCurrent(fetched) ==
    LET cur == get_current_branch_name(fetched)
    IN  IF cur = NoBranch \/ fetched.upstream[cur] = "none" THEN fetched
        ELSE IF cur \notin DOMAIN fetched.server THEN fetched
        ELSE LET ours == fetched.heads[cur]
                 theirs == fetched.server[cur]
             IN  IF theirs \subseteq ours THEN fetched
                 ELSE IF ours \subseteq theirs
                      THEN [fetched EXCEPT !.heads[cur] = theirs]
                 ELSE IF fetched.ncommits < MaxCommits
                      THEN [fetched EXCEPT
                               !.heads[cur] = ours \cup theirs \cup {fetched.ncommits + 1},
                               !.ncommits = @ + 1]
                 ELSE fetched

\* lines 119-121 and 133-135: remote.fetch() fails (the URL of origin cannot
\* be reached) and fetch_from_remotes raises GitError
fetch_from_remotes_raises(r) == ~r.url_ok

fetch_from_remotes(r) ==
    With([r EXCEPT !.remotes = r.server,
                   !.lastSync = [n \in ShortNames |->
                                    IF n \in DOMAIN r.server THEN r.server[n]
                                    ELSE r.lastSync[n]]],
         LAMBDA fetched : PullCurrent(fetched))

\* [repo, ok]: ok is False when local main is behind origin/main
_check_main_branch_status(r) ==
    With(fetch_from_remotes(r), LAMBDA f :
        [repo |-> f,
         ok |-> IF main \in DOMAIN f.heads /\ main \in DOMAIN f.remotes
                THEN Cardinality(f.remotes[main] \ f.heads[main]) = 0
                ELSE TRUE])

IsInternalRef(branch) ==
    \/ startswith(branch, headsPrefix)
    \/ startswith(branch, remotesPrefix)
    \/ branch = originName
    \/ branch = <<"H", "E", "A", "D">>
    \/ endswith(branch, <<"/", "H", "E", "A", "D">>)

local_branches(r) == {b \in LocalListing(r) : ~IsInternalRef(b)}

\* the merge check counting `<branch>..main` in place of `main..<branch>`
MergeCheck_countSwapped(r, branch_name) ==
    IF ~Resolves(r, branch_name) \/ ~Resolves(r, main) THEN UNMERGED
    ELSE LET branch_tip == rev_parse(r, branch_name)
             main_tip == rev_parse(r, main)
         IN  IF branch_tip \subseteq main_tip THEN MERGED
             ELSE IF Cardinality(main_tip \ branch_tip) = 0 THEN MERGED
             ELSE UNMERGED

\* lines 242-266 and 283-303: the merge check against main
MergeCheck(r, branch_name) ==
    IF ~Resolves(r, branch_name) \/ ~Resolves(r, main) THEN UNMERGED
    ELSE LET branch_tip == rev_parse(r, branch_name)
             main_tip == rev_parse(r, main)
         IN  IF branch_tip \subseteq main_tip THEN MERGED
             ELSE IF Cardinality(branch_tip \ main_tip) = 0 THEN MERGED
             ELSE UNMERGED

\* lines 199-240: "decided" is FALSE when the loop falls through to the
\* merge check
GoneCheck(r, branch_name) ==
    IF branch_name \notin ShortNames \/ r.upstream[branch_name] = "none"
    THEN [decided |-> FALSE, status |-> EMPTY]
    ELSE LET remote_ref ==
                 IF r.upstream[branch_name] = "origin" THEN Origin(branch_name)
                 ELSE <<".", "/">> \o main
         IN  IF Resolves(r, remote_ref) THEN [decided |-> FALSE, status |-> EMPTY]
             ELSE IF MarkedGone(r, branch_name)
                  THEN [decided |-> TRUE, status |-> GONE]
             ELSE IF Cardinality(rev_parse(r, branch_name)) = 0
                  THEN [decided |-> TRUE, status |-> GONE]
             ELSE [decided |-> TRUE, status |-> UNMERGED]

\* a local loop that classifies main like any other branch
LocalStatus_mainLikeOthers(r, branch_name, current) ==
    IF branch_name = current THEN UNMERGED
    ELSE With(GoneCheck(r, branch_name), LAMBDA g :
             IF g.decided THEN g.status ELSE MergeCheck(r, branch_name))

LocalStatus(r, branch_name, current) ==
    IF branch_name = main THEN EMPTY
    ELSE IF branch_name = current THEN UNMERGED
    ELSE With(GoneCheck(r, branch_name), LAMBDA g :
             IF g.decided THEN g.status ELSE MergeCheck(r, branch_name))

\* a remote loop that makes no merge check
RemoteStatus_noMergeCheck(r, branch_name) ==
    IF branch_name = Origin(main) THEN EMPTY ELSE UNMERGED

RemoteStatus(r, branch_name) ==
    IF branch_name = Origin(main) THEN EMPTY
    ELSE MergeCheck(r, branch_name)

\* lines 173-305, on the repository as fetched
Classify(f) ==
    With(local_branches(f), LAMBDA locals :
        [b \in locals \cup {x \in RemoteListing(f) :
                               ~endswith(x, <<"/", "H", "E", "A", "D">>)} |->
            IF b \in locals THEN LocalStatus(f, b, get_current_branch_name(f))
            ELSE RemoteStatus(f, b)])

\* a classification that does not look at main first
get_branch_status_unchecked(r) ==
    With(_check_main_branch_status(r), LAMBDA chk :
        [repo |-> chk.repo, raised |-> FALSE, status |-> Classify(chk.repo)])

\* [repo, raised, status]: raised is the GitError(needs_confirmation=True),
\* or the GitError of a failed fetch, which neither
\* _check_main_branch_status nor get_branch_status catches
get_branch_status(r) ==
    IF fetch_from_remotes_raises(r)
    THEN [repo |-> r, raised |-> TRUE, status |-> <<>>]
    ELSE
    With(_check_main_branch_status(r), LAMBDA chk :
        IF ~chk.ok THEN [repo |-> chk.repo, raised |-> TRUE, status |-> <<>>]
        ELSE [repo |-> chk.repo, raised |-> FALSE, status |-> Classify(chk.repo)])

(***************************************************************************)
(* get_branch_status when one of the git queries it makes for one branch   *)
(* raises GitCommandError.  failing is the set of queries that raise.      *)
(***************************************************************************)
Queries ==
    {"config_remote", "config_merge", "rev_parse_upstream", "branch_vv",
     "rev_list_count", "rev_parse_tip", "rev_parse_main", "is_ancestor",
     "range_count"}

\* a merge check that reports Merged when the range count raises
MergeCheckUnder_countFailsMerged(r, branch_name, failing) ==
    IF \/ ~Resolves(r, branch_name) \/ "rev_parse_tip" \in failing
       \/ ~Resolves(r, main) \/ "rev_parse_main" \in failing
    THEN UNMERGED
    ELSE LET branch_tip == rev_parse(r, branch_name)
             main_tip == rev_parse(r, main)
         IN  IF "is_ancestor" \notin failing /\ branch_tip \subseteq main_tip
             THEN MERGED
             ELSE IF "range_count" \in failing THEN MERGED
             ELSE IF Cardinality(branch_tip \ main_tip) = 0 THEN MERGED
             ELSE UNMERGED

\* lines 242-266 and 283-303: a failing rev_parse ends in the outer handler,
\* a failing merge_base in the handler that counts the range, a failing
\* rev_list in the innermost handler
MergeCheckUnder(r, branch_name, failing) ==
    IF \/ ~Resolves(r, branch_name) \/ "rev_parse_tip" \in failing
       \/ ~Resolves(r, main) \/ "rev_parse_main" \in failing
    THEN UNMERGED
    ELSE LET branch_tip == rev_parse(r, branch_name)
             main_tip == rev_parse(r, main)
         IN  IF "is_ancestor" \notin failing /\ branch_tip \subseteq main_tip
             THEN MERGED
             ELSE IF "range_count" \in failing THEN UNMERGED
             ELSE IF Cardinality(branch_tip \ main_tip) = 0 THEN MERGED
             ELSE UNMERGED

\* lines 199-240: a failing config query ends in the handler of line 238
\* (pass), a failing rev_parse of the upstream in the handler that reads
\* `branch -vv`, a failing `branch -vv` or rev_list in a handler that sets
\* Unmerged
GoneCheckUnder(r, branch_name, failing) ==
    IF \/ branch_name \notin ShortNames
       \/ r.upstream[branch_name] = "none"
       \/ "config_remote" \in failing
       \/ "config_merge" \in failing
    THEN [decided |-> FALSE, status |-> EMPTY]
    ELSE LET remote_ref ==
                 IF r.upstream[branch_name] = "origin" THEN Origin(branch_name)
                 ELSE <<".", "/">> \o main
         IN  IF Resolves(r, remote_ref) /\ "rev_parse_upstream" \notin failing
             THEN [decided |-> FALSE, status |-> EMPTY]
             ELSE IF "branch_vv" \in failing
                  THEN [decided |-> TRUE, status |-> UNMERGED]
             ELSE IF MarkedGone(r, branch_name)
                  THEN [decided |-> TRUE, status |-> GONE]
             ELSE IF "rev_list_count" \in failing
                  THEN [decided |-> TRUE, status |-> UNMERGED]
             ELSE IF Cardinality(rev_parse(r, branch_name)) = 0
                  THEN [decided |-> TRUE, status |-> GONE]
             ELSE [decided |-> TRUE, status |-> UNMERGED]

LocalStatusUnder(r, branch_name, current, failing) ==
    IF branch_name = main THEN EMPTY
    ELSE IF branch_name = current THEN UNMERGED
    ELSE With(GoneCheckUnder(r, branch_name, failing), LAMBDA g :
             IF g.decided THEN g.status
             ELSE MergeCheckUnder(r, branch_name, failing))

RemoteStatusUnder(r, branch_name, failing) ==
    IF branch_name = Origin(main) THEN EMPTY
    ELSE MergeCheckUnder(r, branch_name, failing)

\* lines 173-305 when query fault.query raises for branch fault.branch
ClassifyUnder(f, fault) ==
    With(local_branches(f), LAMBDA locals :
        [b \in locals \cup {x \in RemoteListing(f) :
                               ~endswith(x, <<"/", "H", "E", "A", "D">>)} |->
            LET failing == IF b = fault.branch THEN {fault.query} ELSE {}
            IN  IF b \in locals
                THEN LocalStatusUnder(f, b, get_current_branch_name(f), failing)
                ELSE RemoteStatusUnder(f, b, failing)])

get_branch_status_under(r, fault) ==
    With(_check_main_branch_status(r), LAMBDA chk :
        IF ~chk.ok THEN [repo |-> chk.repo, raised |-> TRUE, status |-> <<>>]
        ELSE [repo |-> chk.repo, raised |-> FALSE,
              status |-> ClassifyUnder(chk.repo, fault)])

any_fnmatch(name, protect, stripped) ==
    \E i \in 1..Len(protect) :
        fnmatch(name, IF stripped THEN strip(protect[i]) ELSE protect[i])

\* protection that compares the full name only
IsProtected_fullName(branch_name, protect, stripped) ==
    any_fnmatch(branch_name, protect, stripped)

\* lines 321-330 and 444-451
IsProtected(branch_name, protect, stripped) ==
    \/ /\ startswith(branch_name, originPrefix)
       /\ any_fnmatch(AfterFirstSlash(branch_name), protect, stripped)
    \/ any_fnmatch(branch_name, protect, stripped)

\* planning that does not skip the current branch
_get_branches_to_delete_keepCurrent(r, protect, force) ==
    With(get_branch_status(r), LAMBDA st :
        IF st.raised
        THEN [repo |-> st.repo, raised |-> TRUE, status |-> <<>>, plan |-> <<>>]
        ELSE [repo |-> st.repo, raised |-> FALSE, status |-> st.status,
              plan |-> [b \in {k \in DOMAIN st.status :
                                  /\ ~IsProtected(k, protect, TRUE)
                                  /\ (force \/ st.status[k] # UNMERGED)} |->
                           st.status[b]]])

\* planning that skips the current branch and its remote-tracking branch
_get_branches_to_delete_skipRemoteOfCurrent(r, protect, force) ==
    With(get_branch_status(r), LAMBDA st :
        IF st.raised
        THEN [repo |-> st.repo, raised |-> TRUE, status |-> <<>>, plan |-> <<>>]
        ELSE [repo |-> st.repo, raised |-> FALSE, status |-> st.status,
              plan |-> [b \in {k \in DOMAIN st.status :
                                  /\ k # get_current_branch_name(st.repo)
                                  /\ k # Origin(get_current_branch_name(st.repo))
                                  /\ ~IsProtected(k, protect, TRUE)
                                  /\ (force \/ st.status[k] # UNMERGED)} |->
                           st.status[b]]])

\* planning that removes the unmerged branches whatever force is
_get_branches_to_delete_ignoreForce(r, protect, force) ==
    With(get_branch_status(r), LAMBDA st :
        IF st.raised
        THEN [repo |-> st.repo, raised |-> TRUE, status |-> <<>>, plan |-> <<>>]
        ELSE [repo |-> st.repo, raised |-> FALSE, status |-> st.status,
              plan |-> [b \in {k \in DOMAIN st.status :
                                  /\ k # get_current_branch_name(st.repo)
                                  /\ ~IsProtected(k, protect, TRUE)
                                  /\ st.status[k] # UNMERGED} |->
                           st.status[b]]])

\* lines 309-338: [repo, raised, status, plan], status being the snapshot
\* the plan was filtered from
_get_branches_to_delete(r, protect, force) ==
    With(get_branch_status(r), LAMBDA st :
        IF st.raised
        THEN [repo |-> st.repo, raised |-> TRUE, status |-> <<>>, plan |-> <<>>]
        ELSE [repo |-> st.repo, raised |-> FALSE, status |-> st.status,
              plan |-> [b \in {k \in DOMAIN st.status :
                                  /\ k # get_current_branch_name(st.repo)
                                  /\ ~IsProtected(k, protect, TRUE)
                                  /\ (force \/ st.status[k] # UNMERGED)} |->
                           st.status[b]]])

\* a deletion whose push of the empty ref never fails
DeleteRef_pushNeverFails(r, branch_name) ==
    IF startswith(branch_name, originPrefix)
    THEN LET remote_branch == AfterFirstSlash(branch_name)
         IN  [repo |-> [r EXCEPT !.server = Without(@, remote_branch),
                                 !.remotes = Without(@, remote_branch)],
              ok |-> TRUE, dashD |-> FALSE]
    ELSE IF branch_name \in DOMAIN r.heads /\ branch_name # r.current
    THEN [repo |-> [r EXCEPT !.heads = Without(@, branch_name),
                             !.upstream[branch_name] = "none"],
          ok |-> TRUE, dashD |-> TRUE]
    ELSE [repo |-> r, ok |-> FALSE, dashD |-> TRUE]

\* lines 345-364: remote.push(refspec=":<branch>") for an origin/ name,
\* `git branch -D` for any other, whatever the status passed in; dashD tells
\* that the forcing delete command was run
DeleteRef(r, branch_name) ==
    IF startswith(branch_name, originPrefix)
    THEN LET remote_branch == AfterFirstSlash(branch_name)
         IN  IF remote_branch \in DOMAIN r.server
             THEN [repo |-> [r EXCEPT !.server = Without(@, remote_branch),
                                      !.remotes = Without(@, remote_branch)],
                   ok |-> TRUE, dashD |-> FALSE]
             ELSE [repo |-> r, ok |-> FALSE, dashD |-> FALSE]
    ELSE IF branch_name \in DOMAIN r.heads /\ branch_name # r.current
    THEN [repo |-> [r EXCEPT !.heads = Without(@, branch_name),
                             !.upstream[branch_name] = "none"],
          ok |-> TRUE, dashD |-> TRUE]
    ELSE [repo |-> r, ok |-> FALSE, dashD |-> TRUE]

\* deletion without the guard on main
_delete_branch_unguarded(r, branch_name, status) == DeleteRef(r, branch_name)

\* lines 340-367: [repo, ok]
_delete_branch(r, branch_name, status) ==
    IF \/ branch_name = main
       \/ startswith(branch_name, originPrefix) /\ AfterFirstSlash(branch_name) = main
    THEN [repo |-> r, ok |-> FALSE, dashD |-> FALSE]
    ELSE DeleteRef(r, branch_name)

\* iteration order of the status dict: local listing, then remote listing
KeyOrder ==
    <<detachedEntry, fa, main, Origin(fa), remotesPrefix \o Origin(fa),
      Origin(main)>>

InPlan(plan, k) == k \in DOMAIN plan

items(plan) == SelectSeq(KeyOrder, LAMBDA k : InPlan(plan, k))

\* a deletion loop that gives up at the first failed deletion
RECURSIVE DeleteAll_stopAtFailure(_, _, _, _, _)
DeleteAll_stopAtFailure(r, branches, plan, deleted, forced) ==
    IF branches = <<>> THEN [repo |-> r, deleted |-> deleted, forced |-> forced]
    ELSE With(_delete_branch(r, Head(branches), plan[Head(branches)]), LAMBDA d :
             IF d.ok
             THEN DeleteAll_stopAtFailure(
                      d.repo, Tail(branches), plan,
                      Append(deleted, Head(branches)),
                      IF d.dashD THEN Append(forced, Head(branches)) ELSE forced)
             ELSE [repo |-> r, deleted |-> deleted, forced |-> forced])

\* lines 405-409: [repo, deleted, forced]; forced lists the branches the
\* forcing delete command was run for
RECURSIVE DeleteAll(_, _, _, _, _)
DeleteAll(r, branches, plan, deleted, forced) ==
    IF branches = <<>> THEN [repo |-> r, deleted |-> deleted, forced |-> forced]
    ELSE With(_delete_branch(r, Head(branches), plan[Head(branches)]), LAMBDA d :
             DeleteAll(d.repo, Tail(branches), plan,
                       IF d.ok THEN Append(deleted, Head(branches)) ELSE deleted,
                       IF d.dashD THEN Append(forced, Head(branches)) ELSE forced))

\* lines 369-415: [repo, raised, table, deleted, planned, forced]; table is
\* the plan shown, <<>> for None; planned is what _get_branches_to_delete
\* returned
clean(r, protect, force, interactive) ==
    With(_get_branches_to_delete(r, protect, force), LAMBDA p :
        IF p.raised
        THEN [repo |-> p.repo, raised |-> TRUE, table |-> <<>>, deleted |-> <<>>,
              planned |-> p, forced |-> <<>>]
        ELSE IF DOMAIN p.plan = {}
        THEN [repo |-> p.repo, raised |-> FALSE, table |-> <<>>, deleted |-> <<>>,
              planned |-> p, forced |-> <<>>]
        ELSE IF ~interactive
        THEN With(DeleteAll(p.repo, items(p.plan), p.plan, <<>>, <<>>), LAMBDA d :
                 [repo |-> d.repo, raised |-> FALSE, table |-> p.plan,
                  deleted |-> d.deleted, planned |-> p, forced |-> d.forced])
        ELSE [repo |-> p.repo, raised |-> FALSE, table |-> p.plan,
              deleted |-> <<>>, planned |-> p, forced |-> <<>>])

\* [repo, raised, result]
is_branch_cleanable(r, branch_name, protect) ==
    IF branch_name = main THEN [repo |-> r, raised |-> FALSE, result |-> FALSE]
    ELSE IF branch_name = get_current_branch_name(r)
    THEN [repo |-> r, raised |-> FALSE, result |-> FALSE]
    ELSE IF IsProtected(branch_name, protect, FALSE)
    THEN [repo |-> r, raised |-> FALSE, result |-> FALSE]
    ELSE With(get_branch_status(r), LAMBDA st :
        IF st.raised THEN [repo |-> st.repo, raised |-> TRUE, result |-> FALSE]
        ELSE IF branch_name \notin DOMAIN st.status
        THEN [repo |-> st.repo, raised |-> FALSE, result |-> FALSE]
        ELSE [repo |-> st.repo, raised |-> FALSE,
              result |-> st.status[branch_name] \in {MERGED, GONE}])

_has_uncommitted_changes(r) == r.dirty

\* git pull origin main, on main
PullMain(r) ==
    LET ours == r.heads[main]
        theirs == r.server[main]
        synced == [r EXCEPT !.remotes = (main :> theirs) @@ @,
                            !.lastSync[main] = theirs]
    IN  IF theirs \subseteq ours THEN [repo |-> synced, failed |-> FALSE]
        ELSE IF ours \subseteq theirs
        THEN [repo |-> [synced EXCEPT !.heads[main] = theirs], failed |-> FALSE]
        ELSE IF r.ncommits < MaxCommits
        THEN [repo |-> [synced EXCEPT
                           !.heads[main] = ours \cup theirs \cup {r.ncommits + 1},
                           !.ncommits = @ + 1],
              failed |-> FALSE]
        ELSE [repo |-> synced, failed |-> TRUE]

\* the finally block, lines 87-92
SwitchBack(r, current, had_changes) ==
    LET back == IF current # NoBranch THEN [r EXCEPT !.current = current] ELSE r
    IN  IF had_changes
        THEN [back EXCEPT !.dirty = TRUE, !.stash = @ - 1]
        ELSE back

\* [repo, raised]
_update_main_branch(r) ==
    LET current == get_current_branch_name(r)
        had_changes == _has_uncommitted_changes(r)
        stashed == IF had_changes
                   THEN [r EXCEPT !.dirty = FALSE, !.stash = @ + 1]
                   ELSE r
    IN  With(PullMain([stashed EXCEPT !.current = main]), LAMBDA pulled :
            IF pulled.failed
            THEN [repo |-> SwitchBack(pulled.repo, current, had_changes),
                  raised |-> TRUE]
            ELSE With(_check_main_branch_status(pulled.repo), LAMBDA chk :
                     [repo |-> SwitchBack(chk.repo, current, had_changes),
                      raised |-> ~chk.ok]))

(***************************************************************************)
(* The command line (src/src/arborist/cli.py)                              *)
(***************************************************************************)
\* lines 121-193: the branches list marks as cleanable, on a snapshot
Cleanable(r, status) ==
    {b \in DOMAIN status : is_branch_cleanable(r, b, <<main>>).result}

\* lines 84-228: [repo, exit, status]; confirm is the answer to "Would you
\* like arborist to handle it automatically?".  The rows of the table are
\* Cleanable(repo, status); computing them leaves the repository as the
\* classification before them left it
cli_list(r, confirm) ==
    IF fetch_from_remotes_raises(r)
    THEN [repo |-> r, exit |-> 1, status |-> <<>>]
    ELSE
    With(get_branch_status(fetch_from_remotes(r)), LAMBDA st :
        IF ~st.raised
        THEN [repo |-> st.repo, exit |-> 0, status |-> st.status]
        ELSE IF confirm # "y"
        THEN [repo |-> st.repo, exit |-> 1, status |-> <<>>]
        ELSE With(_update_main_branch(st.repo), LAMBDA u :
            IF u.raised
            THEN [repo |-> u.repo, exit |-> 1, status |-> <<>>]
            ELSE With(get_branch_status(fetch_from_remotes(u.repo)), LAMBDA again :
                IF again.raised
                THEN [repo |-> again.repo, exit |-> 1, status |-> <<>>]
                ELSE [repo |-> again.repo, exit |-> 0, status |-> again.status])))

\* rich's Table.rows: one Row(style, end_section) for each add_row; the
\* cells are kept in the columns
Rows(table) == [i \in 1..Cardinality(DOMAIN table) |->
                   [style |-> "None", end_section |-> FALSE]]

\* sorted(preview_table.rows) compares Row objects, which define no order;
\* branch[0] subscripts a Row: both raise TypeError
SortedRowsRaises(rows) == Len(rows) >= 2

FirstCellRaises(rows) == Len(rows) >= 1

\* [repo, exit, table, deleted, asked]
cli_clean(r, protect, force, no_interactive, confirmMain, confirmDelete) ==
    LET protect_list == [i \in 1..Len(protect) |-> strip(protect[i])]
    IN  With(cli_list(r, confirmMain), LAMBDA l :
        IF l.exit # 0
        THEN [repo |-> l.repo, exit |-> l.exit, table |-> <<>>,
              deleted |-> <<>>, asked |-> FALSE]
        ELSE With(clean(l.repo, protect_list, force, ~no_interactive), LAMBDA c :
            IF c.raised
            THEN [repo |-> c.repo, exit |-> 1, table |-> <<>>,
                  deleted |-> <<>>, asked |-> FALSE]
            ELSE IF DOMAIN c.table = {}
            THEN [repo |-> c.repo, exit |-> 0, table |-> <<>>,
                  deleted |-> <<>>, asked |-> FALSE]
            ELSE IF no_interactive
            THEN [repo |-> c.repo, exit |-> 0, table |-> c.table,
                  deleted |-> c.deleted, asked |-> FALSE]
            ELSE IF confirmDelete # "y"
            THEN [repo |-> c.repo, exit |-> 0, table |-> c.table,
                  deleted |-> <<>>, asked |-> TRUE]
            ELSE IF SortedRowsRaises(Rows(c.table)) \/ FirstCellRaises(Rows(c.table))
            THEN [repo |-> c.repo, exit |-> 1, table |-> c.table,
                  deleted |-> <<>>, asked |-> TRUE]
            ELSE [repo |-> c.repo, exit |-> 0, table |-> c.table,
                  deleted |-> <<>>, asked |-> TRUE]))

\* what --path points to: a repository with a working tree, a bare
\* repository, a directory that is no repository, a path that does not exist
PathKinds == {"worktree", "bare", "invalid", "missing"}

\* GitRepo.__init__, git.py lines 38-45: TRUE when it raises (GitError for a
\* bare repository and for InvalidGitRepositoryError, the library's
\* NoSuchPathError for a missing path)
GitRepo_init_raises(kind) == kind # "worktree"

\* cli.py lines 18-24: [exit]; 1 is typer.Exit(code=1), or the uncaught
\* exception
get_repo(kind) == [exit |-> IF GitRepo_init_raises(kind) THEN 1 ELSE 0]

\* `arb list --path <kind>`
arb_list(kind, r, confirm) ==
    IF get_repo(kind).exit # 0
    THEN [repo |-> r, exit |-> 1, status |-> <<>>]
    ELSE cli_list(r, confirm)

\* `arb clean --path <kind> ...`
arb_clean(kind, r, protect, force, no_interactive, confirmMain, confirmDelete) ==
    IF get_repo(kind).exit # 0
    THEN [repo |-> r, exit |-> 1, table |-> <<>>, deleted |-> <<>>,
          asked |-> FALSE]
    ELSE cli_clean(r, protect, force, no_interactive, confirmMain, confirmDelete)

(***************************************************************************)
(* git-cleanup (src/src/git_cleanup/cli.py).  Its git and config modules  *)
(* are not among the sources: what they do is taken from the               *)
(* specification.  A run is [repo, cmds, shown]: the repository, the       *)
(* mutating git commands executed and the branches printed.                *)
(***************************************************************************)
Cmd(name, arg) == [cmd |-> name, arg |-> arg]

\* git.fetch_and_prune raises git.GitError, which main (lines 267-284)
\* prints and then goes on
fetch_and_prune_raises(r) == ~r.url_ok

\* git.fetch_and_prune: fetch/prune all remotes
fetch_and_prune(s) ==
    [s EXCEPT !.repo = [s.repo EXCEPT
                           !.remotes = s.repo.server,
                           !.lastSync = [n \in ShortNames |->
                                            IF n \in DOMAIN s.repo.server
                                            THEN s.repo.server[n]
                                            ELSE s.repo.lastSync[n]]],
              !.cmds = Append(@, Cmd("fetch_and_prune", <<>>))]

\* git.get_gone_branches: the local branches whose upstream has disappeared
get_gone_branches(r) ==
    SelectSeq(KeyOrder, LAMBDA b : b \in DOMAIN r.heads /\ MarkedGone(r, b))

\* git.get_merged_branches: the local branches merged into main
get_merged_branches(r) ==
    SelectSeq(KeyOrder, LAMBDA b : /\ b \in DOMAIN r.heads
                                   /\ b \notin {main, r.current}
                                   /\ r.heads[b] \subseteq r.heads[main])

\* git.get_merged_remote_branches: the remote-tracking branches merged into
\* main
get_merged_remote_branches(r) ==
    SelectSeq(KeyOrder, LAMBDA b : /\ b \in RemoteListing(r)
                                   /\ b # Origin(main)
                                   /\ rev_parse(r, b) \subseteq r.heads[main])

\* git.filter_protected_branches
filter_protected_branches(branches, protected_branches) ==
    SelectSeq(branches, LAMBDA b : ~IsProtected(b, protected_branches, FALSE))

\* git.delete_branch: git branch -d, or -D with force
delete_branch(s, branch, force) ==
    LET r == s.repo
        can == /\ branch \in DOMAIN r.heads
               /\ branch # r.current
               /\ force \/ r.current = NoBranch
                        \/ r.heads[branch] \subseteq r.heads[r.current]
    IN  [s EXCEPT !.repo = IF can
                           THEN [r EXCEPT !.heads = Without(@, branch),
                                          !.upstream[branch] = "none"]
                           ELSE r,
                  !.cmds = Append(@, Cmd("delete_branch", branch))]

\* git.delete_remote_branch: git push origin --delete
delete_remote_branch(s, branch) ==
    LET r == s.repo
        remote_branch == AfterFirstSlash(branch)
    IN  [s EXCEPT !.repo = IF remote_branch \in DOMAIN r.server
                           THEN [r EXCEPT !.server = Without(@, remote_branch),
                                          !.remotes = Without(@, remote_branch)]
                           ELSE r,
                  !.cmds = Append(@, Cmd("delete_remote_branch", branch))]

\* git.optimize_repo: git gc
optimize_repo(s) == [s EXCEPT !.cmds = Append(@, Cmd("optimize_repo", <<>>))]

\* lines 116-125; proceed and each are the answers to Confirm.ask
RECURSIVE delete_branches_loop(_, _, _, _, _)
delete_branches_loop(s, branches, interactive, force, each) ==
    IF branches = <<>> THEN s
    ELSE delete_branches_loop(
             IF interactive /\ ~each THEN s
             ELSE delete_branch(s, Head(branches), force),
             Tail(branches), interactive, force, each)

delete_branches(s, branches, interactive, force, proceed, each) ==
    IF branches = <<>> THEN s
    ELSE IF interactive /\ ~proceed THEN s
    ELSE delete_branches_loop(s, branches, interactive, force, each)

\* lines 157-166
RECURSIVE delete_remote_branches_loop(_, _, _, _)
delete_remote_branches_loop(s, branches, interactive, each) ==
    IF branches = <<>> THEN s
    ELSE delete_remote_branches_loop(
             IF interactive /\ ~each THEN s
             ELSE delete_remote_branch(s, Head(branches)),
             Tail(branches), interactive, each)

delete_remote_branches(s, branches, interactive, proceed, each) ==
    IF branches = <<>> THEN s
    ELSE IF interactive /\ ~proceed THEN s
    ELSE delete_remote_branches_loop(s, branches, interactive, each)

Show(s, branches) == [s EXCEPT !.shown = @ \o branches]

\* the handler deleting whatever the mode is
handle_gone_branches_always(s, cfg, proceed, each) ==
    With(filter_protected_branches(get_gone_branches(s.repo),
                                   cfg.protected_branches),
         LAMBDA gone_branches :
             IF gone_branches = <<>> THEN s
             ELSE delete_branches(Show(s, gone_branches), gone_branches,
                                  cfg.interactive, TRUE, proceed, each))

handle_gone_branches(s, cfg, proceed, each) ==
    With(filter_protected_branches(get_gone_branches(s.repo),
                                   cfg.protected_branches),
         LAMBDA gone_branches :
             IF gone_branches = <<>> THEN s
             ELSE IF ~cfg.dry_run_by_default
             THEN delete_branches(Show(s, gone_branches), gone_branches,
                                  cfg.interactive, TRUE, proceed, each)
             ELSE Show(s, gone_branches))

handle_merged_branches(s, cfg, proceed, each) ==
    With(filter_protected_branches(get_merged_branches(s.repo),
                                   cfg.protected_branches),
         LAMBDA merged_branches :
             IF merged_branches = <<>> THEN s
             ELSE IF ~cfg.dry_run_by_default
             THEN delete_branches(Show(s, merged_branches), merged_branches,
                                  cfg.interactive, FALSE, proceed, each)
             ELSE Show(s, merged_branches))

handle_merged_remote_branches(s, cfg, proceed, each) ==
    With(filter_protected_branches(get_merged_remote_branches(s.repo),
                                   cfg.protected_branches),
         LAMBDA merged_remotes :
             IF merged_remotes = <<>> THEN s
             ELSE IF ~cfg.dry_run_by_default
             THEN delete_remote_branches(Show(s, merged_remotes), merged_remotes,
                                         cfg.interactive, proceed, each)
             ELSE Show(s, merged_remotes))

optimize_repository(s, cfg) ==
    IF cfg.skip_gc \/ cfg.dry_run_by_default THEN s ELSE optimize_repo(s)

\* an option is <<>> for None and <<v>> for the value v
update_config_from_options(cfg, dry_run, interactive, no_gc, protect) ==
    [dry_run_by_default |-> IF dry_run # <<>> THEN dry_run[1]
                            ELSE cfg.dry_run_by_default,
     interactive |-> IF interactive # <<>> THEN interactive[1]
                     ELSE cfg.interactive,
     skip_gc |-> IF no_gc # <<>> THEN no_gc[1] ELSE cfg.skip_gc,
     protected_branches |-> IF protect # <<>>
                            THEN cfg.protected_branches \o protect
                            ELSE cfg.protected_branches]

parse_protect_option(value) == [i \in 1..Len(value) |-> strip(value[i])]

\* config.load_config: the user's configuration file
Configs ==
    { [dry_run_by_default |-> d, interactive |-> i, skip_gc |-> FALSE,
       protected_branches |-> <<main>>] : d \in BOOLEAN, i \in BOOLEAN }

\* line 258: the options of main are booleans that default to False and are
\* never None
cleanup_config(loaded, dry_run, no_interactive, no_gc, protect) ==
    update_config_from_options(loaded, <<dry_run>>, <<~no_interactive>>,
                               <<no_gc>>, parse_protect_option(protect))

\* git-cleanup [--dry-run] [--no-interactive] [--no-gc] [--protect ...]
cleanup_main(r, loaded, dry_run, no_interactive, no_gc, protect, proceed, each) ==
    LET cfg == cleanup_config(loaded, dry_run, no_interactive, no_gc, protect)
        started == [repo |-> r, cmds |-> <<>>, shown |-> <<>>]
        updated == IF ~cfg.dry_run_by_default /\ ~fetch_and_prune_raises(r)
                   THEN fetch_and_prune(started)
                   ELSE started
    IN  optimize_repository(
            handle_merged_remote_branches(
                handle_merged_branches(
                    handle_gone_branches(updated, cfg, proceed, each),
                    cfg, proceed, each),
                cfg, proceed, each),
            cfg)

(***************************************************************************)
(* BranchOperations (src/src/arborist/git/branch_operations.py).  The      *)
(* helpers of arborist.git.common are not among the sources:               *)
(* validate_branch_exists raises GitError for a name that is no local      *)
(* branch, validate_branch_name accepts the names used here.  A result is  *)
(* [repo, error]: error is "none", "GitError" or "TypeError".              *)
(***************************************************************************)
validate_branch_exists_raises(r, branch_name) == branch_name \notin DOMAIN r.heads

\* lines 32-46: repo.active_branch raises TypeError on a detached HEAD
_validate_not_current_branch(r, branch) ==
    IF r.current = NoBranch THEN "TypeError"
    ELSE IF branch = r.current THEN "GitError"
    ELSE "none"

\* lines 48-64: the name is an element of the list
_validate_not_protected(branch, protected_branches) ==
    IF \E i \in 1..Len(protected_branches) : protected_branches[i] = branch
    THEN "GitError" ELSE "none"

\* git push <remote> --delete <branch>: [repo, ok].  The remote "." is the
\* repository itself, where the push deletes refs/heads/<branch>
push_delete(r, remote, branch) ==
    IF remote = "."
    THEN [repo |-> [r EXCEPT !.heads = Without(@, branch),
                             !.upstream[branch] = "none"],
          ok |-> TRUE]
    ELSE IF branch \in DOMAIN r.server
    THEN [repo |-> [r EXCEPT !.server = Without(@, branch)], ok |-> TRUE]
    ELSE [repo |-> r, ok |-> FALSE]

\* git fetch <remote> --prune
fetch_prune(r, remote) ==
    IF remote = "." THEN r
    ELSE [r EXCEPT !.remotes = r.server,
                   !.lastSync = [n \in ShortNames |->
                                    IF n \in DOMAIN r.server THEN r.server[n]
                                    ELSE r.lastSync[n]]]

\* repo.delete_head(name, force): git branch -d / -D
delete_head(r, branch, force) ==
    IF /\ branch \in DOMAIN r.heads
       /\ branch # r.current
       /\ force \/ r.current = NoBranch
                \/ r.heads[branch] \subseteq r.heads[r.current]
    THEN [repo |-> [r EXCEPT !.heads = Without(@, branch),
                             !.upstream[branch] = "none"],
          error |-> "none"]
    ELSE [repo |-> r, error |-> "GitError"]

\* lines 92-127
_delete_branch_safely(r, branch, force) ==
    IF r.upstream[branch] # "none"
    THEN With(push_delete(r, r.upstream[branch], branch), LAMBDA pushed :
             IF ~pushed.ok THEN [repo |-> r, error |-> "GitError"]
             ELSE delete_head(fetch_prune(pushed.repo, r.upstream[branch]),
                              branch, force))
    ELSE delete_head(r, branch, force)

\* lines 129-167; no linked worktree has the branch checked out, so
\* _handle_worktree_deletion removes nothing
BranchOperations_delete_branch(r, branch_name, protected_branches, force) ==
    IF validate_branch_exists_raises(r, branch_name)
    THEN [repo |-> r, error |-> "GitError"]
    ELSE IF _validate_not_current_branch(r, branch_name) # "none"
    THEN [repo |-> r, error |-> _validate_not_current_branch(r, branch_name)]
    ELSE IF /\ protected_branches # <<>>
            /\ _validate_not_protected(branch_name, protected_branches) # "none"
    THEN [repo |-> r, error |-> "GitError"]
    ELSE _delete_branch_safely(r, branch_name, force)

(***************************************************************************)
(* Inputs                                                                  *)
(***************************************************************************)
\* protected_branches of BranchOperations.delete_branch: names, no globs
ProtectedNames == { <<>>, <<main>>, <<main, fa>> }

\* --protect lists: none, the default "main", a "*" glob with blanks around
\* it next to "main", and a "?" glob on the remote-prefixed name
ProtectLists ==
    { <<>>,
      <<main>>,
      <<main, <<" ", "f", "/", "*", " ">> >>,
      << <<"o", "r", "i", "g", "i", "n", "/", "f", "/", "?">> >> }

\* arb clean --protect "" and --protect " main", split at the commas
CliProtects == { << <<>> >>, << <<" ", "m", "a", "i", "n">> >> }

\* is_branch_cleanable: the default protect=["main"] and the tests' glob
CleanableProtectLists == { <<main>>, << <<"f", "/", "*">> >> }

\* git-cleanup --protect: none, or a glob with blanks around it
CleanupProtects == { <<>>, << <<" ", "f", "/", "*">> >> }

BranchArgs == {main, fa, Origin(main), Origin(fa), detachedEntry}

Answers == {"y", "n"}

(***************************************************************************)
(* State                                                                   *)
(***************************************************************************)
\* what the last operation of the program was, on which repository state it
\* ran (pre), on which state it classified (at) and what it returned
Idle ==
    [op |-> "none", pre |-> <<>>, at |-> <<>>, raised |-> FALSE,
     status |-> <<>>, plan |-> <<>>, table |-> <<>>, deleted |-> <<>>,
     ok |-> FALSE, name |-> <<>>, protect |-> <<>>, force |-> FALSE,
     interactive |-> FALSE, exit |-> 0, answers |-> <<>>,
     dry_run |-> FALSE, cmds |-> <<>>, forced |-> <<>>, query |-> "none",
     raised2 |-> FALSE, status2 |-> <<>>, cleanable |-> {},
     kind |-> "worktree", loaded |-> <<>>, cfg |-> <<>>, error |-> "none"]

InitRepo ==
    [heads |-> (main :> {1}),
     upstream |-> [n \in ShortNames |-> IF n = main THEN "origin" ELSE "none"],
     remotes |-> (main :> {1}),
     server |-> (main :> {1}),
     lastSync |-> [n \in ShortNames |-> IF n = main THEN {1} ELSE {}],
     current |-> main,
     ncommits |-> 1,
     dirty |-> FALSE,
     stash |-> 0,
     tags |-> {},
     special |-> {},
     url_ok |-> TRUE]

Init == repo = InitRepo /\ last = Idle

(***************************************************************************)
(* The user and the remote act on the repository, as the tests' fixtures   *)
(* do (src/tests/conftest.py, src/tests/test_integration.py)               *)
(***************************************************************************)
\* git branch [--track] <n> main
UserCreateBranch ==
    /\ last = Idle
    /\ main \in DOMAIN repo.heads
    /\ \E n \in FeatureNames \ DOMAIN repo.heads, track \in BOOLEAN :
           repo' = [repo EXCEPT !.heads = (n :> repo.heads[main]) @@ @,
                                !.upstream[n] = IF track THEN "." ELSE "none",
                                !.lastSync[n] = {}]
    /\ last' = Idle

\* git checkout <n>, git checkout --detach
UserCheckout ==
    /\ last = Idle
    /\ \E n \in (DOMAIN repo.heads \cup {NoBranch}) \ {repo.current} :
           repo' = [repo EXCEPT !.current = n]
    /\ last' = Idle

\* git tag <name> / git tag -d <name>, for a name that a branch or a
\* remote-tracking branch can have
UserTag ==
    /\ last = Idle
    /\ \E n \in {fa, Origin(fa)} :
           repo' = [repo EXCEPT !.tags = IF n \in @ THEN @ \ {n} ELSE @ \cup {n}]
    /\ last' = Idle

\* git update-ref refs/heads/origin HEAD (and its removal);
\* git remote set-head origin main (and set-head -d)
UserSpecialRef ==
    /\ last = Idle
    /\ \E x \in {originName, originHEAD} :
           repo' = [repo EXCEPT
                       !.special = IF x \in @ THEN @ \ {x} ELSE @ \cup {x}]
    /\ last' = Idle

\* a file is added to the index (local_file.write_text, index.add); the
\* change is discarded again
UserEdit ==
    /\ last = Idle
    /\ repo' = [repo EXCEPT !.dirty = ~@]
    /\ last' = Idle

\* a commit on the checked-out branch
UserCommit ==
    /\ last = Idle
    /\ repo.current # NoBranch
    /\ repo.ncommits < MaxCommits
    /\ repo' = [repo EXCEPT !.heads[repo.current] = @ \cup {repo.ncommits + 1},
                            !.ncommits = @ + 1]
    /\ last' = Idle

\* git push -u origin <n>
UserPush ==
    /\ last = Idle
    /\ \E n \in DOMAIN repo.heads :
           /\ n \in DOMAIN repo.server => repo.server[n] \subseteq repo.heads[n]
           /\ repo' = [repo EXCEPT !.server = (n :> repo.heads[n]) @@ @,
                                   !.remotes = (n :> repo.heads[n]) @@ @,
                                   !.upstream[n] = "origin",
                                   !.lastSync[n] = repo.heads[n]]
    /\ last' = Idle

\* on main: git merge <n> (fast-forward) or git merge --no-ff <n>
UserMerge ==
    /\ last = Idle
    /\ repo.current = main
    /\ \E n \in DOMAIN repo.heads \ {main}, noff \in BOOLEAN :
           LET ours == repo.heads[main]
               theirs == repo.heads[n]
           IN  /\ ~(theirs \subseteq ours)
               /\ IF ours \subseteq theirs /\ ~noff
                  THEN repo' = [repo EXCEPT !.heads[main] = theirs]
                  ELSE /\ repo.ncommits < MaxCommits
                       /\ repo' = [repo EXCEPT
                              !.heads[main] = ours \cup theirs \cup {repo.ncommits + 1},
                              !.ncommits = @ + 1]
    /\ last' = Idle

\* somebody deletes the branch on the remote: git push origin :<n>
RemoteDelete ==
    /\ last = Idle
    /\ \E n \in DOMAIN repo.server \ {main} :
           repo' = [repo EXCEPT !.server = Without(@, n)]
    /\ last' = Idle

\* somebody merges the branch into main on the remote
RemoteMerge ==
    /\ last = Idle
    /\ main \in DOMAIN repo.server
    /\ \E n \in DOMAIN repo.server \ {main} :
           LET ours == repo.server[main]
               theirs == repo.server[n]
           IN  /\ ~(theirs \subseteq ours)
               /\ IF ours \subseteq theirs
                  THEN repo' = [repo EXCEPT !.server[main] = theirs]
                  ELSE /\ repo.ncommits < MaxCommits
                       /\ repo' = [repo EXCEPT
                              !.server[main] = ours \cup theirs \cup {repo.ncommits + 1},
                              !.ncommits = @ + 1]
    /\ last' = Idle

\* git remote set-url origin <url>, to a URL that cannot be reached and back
UserSetUrl ==
    /\ last = Idle
    /\ repo' = [repo EXCEPT !.url_ok = ~@]
    /\ last' = Idle

\* somebody pushes a commit to main on the remote
RemoteCommit ==
    /\ last = Idle
    /\ main \in DOMAIN repo.server
    /\ repo.ncommits < MaxCommits
    /\ repo' = [repo EXCEPT !.server[main] = @ \cup {repo.ncommits + 1},
                            !.ncommits = @ + 1]
    /\ last' = Idle

(***************************************************************************)
(* The operations of the program                                           *)
(***************************************************************************)
GetBranchStatus ==
    /\ last = Idle
    /\ \E st \in {get_branch_status(repo)} :
           /\ repo' = st.repo
           /\ last' = [Idle EXCEPT !.op = "get_branch_status", !.pre = repo,
                                   !.at = st.repo, !.raised = st.raised,
                                   !.status = st.status]

\* two calls of get_branch_status in a row
GetBranchStatusTwice ==
    /\ last = Idle
    /\ \E st \in {get_branch_status(repo)} :
           \E st2 \in {get_branch_status(st.repo)} :
               /\ repo' = st2.repo
               /\ last' = [Idle EXCEPT !.op = "get_branch_status_twice",
                                       !.pre = repo, !.at = st.repo,
                                       !.raised = st.raised,
                                       !.status = st.status,
                                       !.raised2 = st2.raised,
                                       !.status2 = st2.status]

\* get_branch_status while one query for one branch raises
GetBranchStatusFailing ==
    /\ last = Idle
    /\ \E branch \in {fa, Origin(fa)}, query \in Queries :
           \E st \in {get_branch_status_under(repo, [branch |-> branch,
                                                      query |-> query])} :
               /\ repo' = st.repo
               /\ last' = [Idle EXCEPT !.op = "get_branch_status_failing",
                                       !.pre = repo, !.at = st.repo,
                                       !.raised = st.raised,
                                       !.status = st.status,
                                       !.name = branch, !.query = query]

DeleteBranch ==
    /\ last = Idle
    /\ \E branch_name \in BranchArgs, status \in {MERGED, GONE} :
           \E d \in {_delete_branch(repo, branch_name, status)} :
               /\ repo' = d.repo
               /\ last' = [Idle EXCEPT !.op = "_delete_branch", !.pre = repo,
                                       !.ok = d.ok, !.name = branch_name]

\* clean, with the snapshot it classified and the plan that
\* _get_branches_to_delete computed for it
Clean ==
    /\ last = Idle
    /\ \E protect \in ProtectLists, force \in BOOLEAN, interactive \in BOOLEAN :
           \E c \in {clean(repo, protect, force, interactive)} :
               /\ repo' = c.repo
               /\ last' = [Idle EXCEPT !.op = "clean", !.pre = repo,
                                       !.at = c.planned.repo,
                                       !.raised = c.raised,
                                       !.status = c.planned.status,
                                       !.plan = c.planned.plan,
                                       !.table = c.table, !.deleted = c.deleted,
                                       !.forced = c.forced,
                                       !.protect = protect, !.force = force,
                                       !.interactive = interactive]

IsBranchCleanable ==
    /\ last = Idle
    /\ \E branch_name \in BranchArgs, protect \in CleanableProtectLists :
           \E c \in {is_branch_cleanable(repo, branch_name, protect)} :
               /\ repo' = c.repo
               /\ last' = [Idle EXCEPT !.op = "is_branch_cleanable", !.pre = repo,
                                       !.at = c.repo, !.raised = c.raised,
                                       !.ok = c.result, !.name = branch_name,
                                       !.protect = protect]

\* arb clean [--protect ...] [--force] [--no-interactive], with the answers
\* typed at its prompts; "" where the prompt cannot be shown
CliClean ==
    /\ last = Idle
    /\ \E behind \in {~_check_main_branch_status(fetch_from_remotes(repo)).ok} :
       \E protect \in CliProtects, force \in BOOLEAN, no_interactive \in BOOLEAN :
       \E confirmMain \in IF behind THEN Answers ELSE {""},
          confirmDelete \in IF no_interactive THEN {""} ELSE Answers :
           \E c \in {cli_clean(repo, protect, force, no_interactive,
                               confirmMain, confirmDelete)} :
               /\ repo' = c.repo
               /\ last' = [Idle EXCEPT !.op = "cli_clean", !.pre = repo,
                                       !.table = c.table, !.deleted = c.deleted,
                                       !.protect = protect, !.force = force,
                                       !.interactive = ~no_interactive,
                                       !.exit = c.exit,
                                       !.answers =
                                           <<confirmMain,
                                             IF c.asked THEN confirmDelete ELSE "">>]

\* arb list, with the answer typed at its prompt ("" where the prompt cannot
\* be shown), and the branches it marks as cleanable
CliList ==
    /\ last = Idle
    /\ \E behind \in {~_check_main_branch_status(fetch_from_remotes(repo)).ok} :
       \E confirm \in IF behind THEN Answers ELSE {""} :
           \E l \in {cli_list(repo, confirm)} :
               /\ repo' = l.repo
               /\ last' = [Idle EXCEPT !.op = "cli_list", !.pre = repo,
                                       !.at = l.repo,
                                       !.status = l.status, !.exit = l.exit,
                                       !.answers = <<confirm>>,
                                       !.cleanable =
                                           IF l.exit = 0
                                           THEN Cleanable(l.repo, l.status)
                                           ELSE {}]

\* arb list and arb clean on a path of any kind; the prompts can only be
\* shown for a repository that opens
ArbList ==
    /\ last = Idle
    /\ \E kind \in PathKinds :
       \E behind \in {/\ kind = "worktree"
                      /\ ~fetch_from_remotes_raises(repo)
                      /\ ~_check_main_branch_status(fetch_from_remotes(repo)).ok} :
       \E confirm \in IF behind THEN Answers ELSE {""} :
           \E l \in {arb_list(kind, repo, confirm)} :
               /\ repo' = l.repo
               /\ last' = [Idle EXCEPT !.op = "arb_list", !.pre = repo,
                                       !.kind = kind, !.status = l.status,
                                       !.exit = l.exit, !.answers = <<confirm, "">>]

ArbClean ==
    /\ last = Idle
    /\ \E kind \in PathKinds :
       \E behind \in {/\ kind = "worktree"
                      /\ ~fetch_from_remotes_raises(repo)
                      /\ ~_check_main_branch_status(fetch_from_remotes(repo)).ok} :
       \E protect \in CliProtects, force \in BOOLEAN, no_interactive \in BOOLEAN :
       \E confirmMain \in IF behind THEN Answers ELSE {""},
          confirmDelete \in IF no_interactive \/ kind # "worktree"
                            THEN {""} ELSE Answers :
           \E c \in {arb_clean(kind, repo, protect, force, no_interactive,
                               confirmMain, confirmDelete)} :
               /\ repo' = c.repo
               /\ last' = [Idle EXCEPT !.op = "arb_clean", !.pre = repo,
                                       !.kind = kind,
                                       !.table = c.table, !.deleted = c.deleted,
                                       !.protect = protect, !.force = force,
                                       !.interactive = ~no_interactive,
                                       !.exit = c.exit,
                                       !.answers =
                                           <<confirmMain,
                                             IF c.asked THEN confirmDelete ELSE "">>]

\* git-cleanup, with the configuration it loads and the answers typed at its
\* prompts
CleanupMain ==
    /\ last = Idle
    /\ \E loaded \in Configs, dry_run \in BOOLEAN, no_interactive \in BOOLEAN,
          no_gc \in BOOLEAN, protect \in CleanupProtects,
          proceed \in BOOLEAN, each \in BOOLEAN :
           \E c \in {cleanup_main(repo, loaded, dry_run, no_interactive, no_gc,
                                  protect, proceed, each)} :
               /\ repo' = c.repo
               /\ last' = [Idle EXCEPT !.op = "cleanup_main", !.pre = repo,
                                       !.plan = c.shown, !.cmds = c.cmds,
                                       !.dry_run = dry_run,
                                       !.interactive = ~no_interactive]

\* git-cleanup, with the configuration it loaded and the one it ran under
CleanupMainConfigured ==
    /\ last = Idle
    /\ \E loaded \in Configs, dry_run \in BOOLEAN, no_interactive \in BOOLEAN,
          no_gc \in BOOLEAN, protect \in CleanupProtects,
          proceed \in BOOLEAN, each \in BOOLEAN :
           \E c \in {cleanup_main(repo, loaded, dry_run, no_interactive, no_gc,
                                  protect, proceed, each)} :
               /\ repo' = c.repo
               /\ last' = [Idle EXCEPT !.op = "cleanup_main", !.pre = repo,
                                       !.plan = c.shown, !.cmds = c.cmds,
                                       !.dry_run = dry_run,
                                       !.interactive = ~no_interactive,
                                       !.loaded = loaded,
                                       !.cfg = cleanup_config(loaded, dry_run,
                                                   no_interactive, no_gc,
                                                   protect)]

UpdateMainBranch ==
    /\ last = Idle
    /\ \E u \in {_update_main_branch(repo)} :
           /\ repo' = u.repo
           /\ last' = [Idle EXCEPT !.op = "_update_main_branch", !.pre = repo,
                                   !.raised = u.raised]

BranchOperationsDelete ==
    /\ last = Idle
    /\ \E branch_name \in ShortNames, protected_branches \in ProtectedNames,
          force \in BOOLEAN :
           \E d \in {BranchOperations_delete_branch(repo, branch_name,
                                                   protected_branches, force)} :
               /\ repo' = d.repo
               /\ last' = [Idle EXCEPT !.op = "BranchOperations.delete_branch",
                                       !.pre = repo, !.name = branch_name,
                                       !.protect = protected_branches,
                                       !.force = force, !.error = d.error]

\* the command ends and its result is dropped: a snapshot lives for one
\* operation only
Return ==
    /\ last # Idle
    /\ last' = Idle
    /\ UNCHANGED repo

Next ==
    \/ UserCreateBranch
    \/ UserCheckout
    \/ UserCommit
    \/ UserPush
    \/ UserMerge
    \/ RemoteDelete
    \/ RemoteMerge
    \/ RemoteCommit
    \/ GetBranchStatus
    \/ DeleteBranch
    \/ Clean
    \/ IsBranchCleanable
    \/ Return

Spec == Init /\ [][Next]_vars

\* the repository under the command line of arborist
Environment ==
    \/ UserCreateBranch
    \/ UserCheckout
    \/ UserCommit
    \/ UserPush
    \/ UserMerge
    \/ RemoteDelete
    \/ RemoteMerge
    \/ RemoteCommit

NextCli ==
    \/ Environment
    \/ CliClean
    \/ DeleteBranch
    \/ Return

SpecCli == Init /\ [][NextCli]_vars

\* the repository under git-cleanup
\* the two commands of arborist, on any path
NextArb ==
    \/ Environment
    \/ ArbList
    \/ ArbClean
    \/ Return

SpecArb == Init /\ [][NextArb]_vars

\* the operations that need the state of the remote, with a remote that
\* can be unreachable
NextFetch ==
    \/ Environment
    \/ UserSetUrl
    \/ GetBranchStatus
    \/ ArbList
    \/ ArbClean
    \/ CleanupMain
    \/ Return

SpecFetch == Init /\ [][NextFetch]_vars

\* arb list on a repository that has tags and special refs
NextList ==
    \/ Environment
    \/ UserTag
    \/ UserSpecialRef
    \/ CliList
    \/ GetBranchStatus
    \/ Return

SpecList == Init /\ [][NextList]_vars

\* the classification of a repository that has tags and special refs
NextRefs ==
    \/ Environment
    \/ UserTag
    \/ UserSpecialRef
    \/ GetBranchStatus
    \/ GetBranchStatusTwice
    \/ Return

SpecRefs == Init /\ [][NextRefs]_vars

\* the classification with a failing query
NextFailing ==
    \/ Environment
    \/ GetBranchStatusFailing
    \/ Return

SpecFailing == Init /\ [][NextFailing]_vars

NextCleanup ==
    \/ Environment
    \/ CleanupMain
    \/ Return

SpecCleanup == Init /\ [][NextCleanup]_vars

\* git-cleanup under the configurations of the user
NextConfigured ==
    \/ Environment
    \/ CleanupMainConfigured
    \/ Return

SpecConfigured == Init /\ [][NextConfigured]_vars

\* the update of main, with and without uncommitted changes
NextUpdate ==
    \/ Environment
    \/ UserEdit
    \/ UpdateMainBranch
    \/ Return

SpecUpdate == Init /\ [][NextUpdate]_vars

\* BranchOperations.delete_branch
NextOperations ==
    \/ Environment
    \/ BranchOperationsDelete
    \/ Return

SpecOperations == Init /\ [][NextOperations]_vars

(***************************************************************************)
(* Properties                                                              *)
(***************************************************************************)
\* the name of a branch without its origin/ prefix
ShortName(b) == IF startswith(b, originPrefix) THEN AfterFirstSlash(b) ELSE b

\* b names a branch of repository r, local or remote-tracking
IsBranch(r, b) == b \in DOMAIN r.heads \/ b \in RemoteListing(r)

\* the commits reachable from the tip of branch b
Tip(r, b) ==
    IF b \in DOMAIN r.heads THEN r.heads[b] ELSE r.remotes[ShortName(b)]

\* the local branch b tracks a branch of origin that is no longer there
UpstreamGone(r, b) ==
    /\ b \in DOMAIN r.heads
    /\ r.upstream[b] = "origin"
    /\ b \notin DOMAIN r.remotes

\* b matches pattern p, blanks around p ignored
Glob(b, p) == fnmatch(b, strip(p))

\* clean computed a plan; get_branch_status returned a snapshot
Planned == last.op = "clean" /\ ~last.raised

Classified == last.op = "get_branch_status" /\ ~last.raised

\* C1: the plan of clean never contains main or origin/main, whatever the
\* protect list, the force flag and the status of main are
C1_PlanExcludesMain ==
    Planned => /\ main \notin DOMAIN last.plan
               /\ Origin(main) \notin DOMAIN last.plan

\* C2: main is never deleted: whatever the protect list, the force flag and
\* the answers of arb clean are, main exists locally and on the remote
\* afterwards, and _delete_branch called with main or origin/main returns
\* False and changes nothing
C2_MainNeverDeleted ==
    /\ main \in DOMAIN repo.heads
    /\ main \in DOMAIN repo.server
    /\ (last.op = "_delete_branch" /\ last.name \in {main, Origin(main)})
           => ~last.ok /\ repo = last.pre

C2_Witness ==
    /\ last.op = "cli_clean"
    /\ ~last.interactive
    /\ main \in DOMAIN last.table
    /\ Origin(main) \in DOMAIN last.table
    /\ Len(last.deleted) > 0

\* C3: a local branch whose upstream has disappeared is classified Gone
\* when it carries no unpushed commit and Unmerged when it carries one
C3_GoneOnlyWithoutUnpushed ==
    Classified =>
        \A b \in DOMAIN last.at.heads \ {main, last.at.current} :
            UpstreamGone(last.at, b) =>
                last.status[b] = IF Unpushed(last.at, b) = {} THEN GONE
                                 ELSE UNMERGED

\* C4: the current branch is never in the plan, and is_branch_cleanable is
\* False for it
C4_CurrentNeverPlanned ==
    /\ Planned => last.at.current \notin DOMAIN last.plan
    /\ (last.op = "is_branch_cleanable" /\ last.name = last.pre.current)
           => ~last.ok

C4_Witness ==
    /\ Planned
    /\ last.force
    /\ last.protect = <<>>
    /\ last.at.current = fa
    /\ last.status[fa] = UNMERGED
    /\ DOMAIN last.plan # {}

\* C5: without force every branch of the plan is Merged or Gone
C5_NoForceOnlyMergedOrGone ==
    (Planned /\ ~last.force) =>
        \A b \in DOMAIN last.plan : last.plan[b] \in {MERGED, GONE}

\* C6: every branch of the snapshot that is not the current branch, not
\* main or origin/main, matches no protect pattern by its name or its short
\* name, and is Merged or Gone (or Unmerged under force) is in the plan,
\* with the status of the snapshot
C6_PlanComplete ==
    Planned =>
        \A b \in DOMAIN last.status :
            ( /\ b # last.at.current
              /\ b \notin {main, Origin(main)}
              /\ \A i \in 1..Len(last.protect) :
                     /\ ~Glob(b, last.protect[i])
                     /\ ~Glob(ShortName(b), last.protect[i])
              /\ \/ last.status[b] \in {MERGED, GONE}
                 \/ last.force /\ last.status[b] = UNMERGED )
            => /\ b \in DOMAIN last.plan
               /\ last.plan[b] = last.status[b]

C6_Witness ==
    /\ Planned
    /\ last.force
    /\ \E b \in DOMAIN last.plan : last.plan[b] = UNMERGED
    /\ \E b \in DOMAIN last.plan : last.plan[b] = MERGED

\* C7: a branch whose short name matches a protect pattern, local or
\* origin/, is not in the plan and clean does not delete it
C7_ProtectedNeverPlanned ==
    Planned =>
        \A b \in DOMAIN last.status :
            (\E i \in 1..Len(last.protect) : Glob(ShortName(b), last.protect[i]))
            => /\ b \notin DOMAIN last.plan
               /\ \A i \in 1..Len(last.deleted) : last.deleted[i] # b
               /\ IsBranch(last.at, b) => IsBranch(repo, b)
               /\ b \in RemoteListing(last.at) =>
                      (ShortName(b) \in DOMAIN last.at.server
                           => ShortName(b) \in DOMAIN repo.server)

C7_Witness ==
    /\ Planned
    /\ ~last.interactive
    /\ last.protect = <<main, <<" ", "f", "/", "*", " ">> >>
    /\ last.at.current = main
    /\ fa \in DOMAIN last.status
    /\ Origin(fa) \in DOMAIN last.status
    /\ last.status[fa] = MERGED
    /\ last.status[Origin(fa)] = MERGED

\* C8: every branch other than main, origin/main and the current branch,
\* whose upstream has not disappeared, and whose tip is an ancestor of the
\* tip of main (no commit reachable from it and not from main), is
\* classified Merged
C8_AncestorIsMerged ==
    Classified =>
        \A b \in DOMAIN last.status \ {main, Origin(main), last.at.current} :
            ( /\ IsBranch(last.at, b)
              /\ ~UpstreamGone(last.at, b)
              /\ Tip(last.at, b) \subseteq Tip(last.at, main) )
            => last.status[b] = MERGED

\* C9: a branch with a commit that is not reachable from main, and whose
\* upstream has not disappeared, is classified Unmerged
C9_AheadIsUnmerged ==
    Classified =>
        \A b \in DOMAIN last.status :
            ( /\ IsBranch(last.at, b)
              /\ ~(Tip(last.at, b) \subseteq Tip(last.at, main))
              /\ ~UpstreamGone(last.at, b) )
            => last.status[b] = UNMERGED

C9_Witness ==
    /\ Classified
    /\ fa \in DOMAIN last.status
    /\ fa # last.at.current
    /\ last.at.upstream[fa] = "origin"
    /\ fa \in DOMAIN last.at.remotes
    /\ ~(Tip(last.at, fa) \subseteq Tip(last.at, main))
    /\ last.status[fa] = UNMERGED

\* C10: git-cleanup --dry-run leaves the local and the remote branches and
\* their tips as they were and executes no delete, no fetch/prune and no
\* garbage collection
C10_DryRunMutatesNothing ==
    (last.op = "cleanup_main" /\ last.dry_run) =>
        /\ repo.heads = last.pre.heads
        /\ repo.remotes = last.pre.remotes
        /\ repo.server = last.pre.server
        /\ last.cmds = <<>>

C10_Witness ==
    /\ last.op = "cleanup_main"
    /\ last.dry_run
    /\ Len(last.plan) > 1
    /\ ~last.interactive

\* C11: an interactive arb clean whose prompts were not answered "y" ends
\* with no mutation: no branch deleted locally or on the remote and no
\* branch tip moved
C11_NoMutationWithoutConsent ==
    ( /\ last.op = "cli_clean"
      /\ last.interactive
      /\ last.answers[1] # "y"
      /\ last.answers[2] # "y" )
    => /\ repo.heads = last.pre.heads
       /\ repo.server = last.pre.server

\* C12: an interactive arb clean answered "y" ends normally, and every
\* branch of the displayed plan that can be deleted (not main, not
\* origin/main, not checked out) is gone afterwards and reported deleted
C12_ConfirmedPlanIsApplied ==
    ( /\ last.op = "cli_clean"
      /\ last.interactive
      /\ last.answers[2] = "y" )
    => /\ last.exit = 0
       /\ \A b \in DOMAIN last.table \ {main, Origin(main), repo.current} :
              IsBranch(last.pre, b) =>
                  /\ ~IsBranch(repo, b)
                  /\ \E i \in 1..Len(last.deleted) : last.deleted[i] = b

\* the deletion of planned branch b by the last clean succeeded: b was a
\* branch when the loop started and is none now
DeletionSucceeded(b) == IsBranch(last.at, b) /\ ~IsBranch(repo, b)

\* deleting b in the repository the loop started from is possible
Deletable(b) ==
    /\ ShortName(b) # main
    /\ IF startswith(b, originPrefix)
       THEN ShortName(b) \in DOMAIN last.at.server
       ELSE b \in DOMAIN last.at.heads /\ b # last.at.current

\* C13: in a non-interactive clean a failed deletion does not prevent the
\* remaining ones: every planned branch that can be deleted is deleted, and
\* the returned list is exactly the planned branches whose deletion
\* succeeded, in plan order
C13_FailureDoesNotStopLoop ==
    (Planned /\ ~last.interactive) =>
        /\ \A b \in DOMAIN last.plan : Deletable(b) => DeletionSucceeded(b)
        /\ last.deleted = SelectSeq(items(last.plan), DeletionSucceeded)

\* a planned deletion failed and a later one of the same run succeeded
C13_Witness ==
    /\ Planned /\ ~last.interactive
    /\ \E i, j \in 1..Len(items(last.plan)) :
           /\ i < j
           /\ ~DeletionSucceeded(items(last.plan)[i])
           /\ DeletionSucceeded(items(last.plan)[j])

\* C14: a planned local branch that clean deleted was deleted with the
\* forcing delete command exactly when it was classified Gone or force was
\* requested; a Merged one without force was deleted with the non-forcing one
C14_ForcingDeleteOnlyWhenGoneOrForce ==
    (Planned /\ ~last.interactive) =>
        \A i \in 1..Len(last.deleted) :
            LET b == last.deleted[i]
            IN  ~startswith(b, originPrefix) =>
                    ( (\E j \in 1..Len(last.forced) : last.forced[j] = b)
                      <=> (last.plan[b] = GONE \/ last.force) )

\* get_branch_status ran with a failing query and returned a snapshot
ClassifiedFailing == last.op = "get_branch_status_failing" /\ ~last.raised

\* the merge check is reached for branch b of repository f
ReachesMergeCheck(f, b) ==
    \/ b \in RemoteListing(f) /\ b # Origin(main)
    \/ /\ b \in DOMAIN f.heads /\ b # main /\ b # f.current
       /\ ~GoneCheck(f, b).decided

\* the ref that `branch.<b>.remote`/`branch.<b>.merge` name resolves
UpstreamResolves(f, b) ==
    f.upstream[b] = "origin" /\ Resolves(f, Origin(b))

\* query q is made while classifying branch b of repository f, and it
\* succeeds unless made to fail
QueryMade(f, b, q) ==
    LET local == b \in DOMAIN f.heads /\ b # main /\ b # f.current
        tracking == local /\ f.upstream[b] # "none"
    IN  CASE q \in {"config_remote", "config_merge"} -> tracking
          [] q = "rev_parse_upstream" -> tracking /\ UpstreamResolves(f, b)
          [] q = "branch_vv" -> tracking /\ ~UpstreamResolves(f, b)
          [] q = "rev_list_count" ->
                 tracking /\ ~UpstreamResolves(f, b) /\ ~MarkedGone(f, b)
          [] q = "rev_parse_tip" -> ReachesMergeCheck(f, b)
          [] q = "rev_parse_main" -> ReachesMergeCheck(f, b)
          [] q = "is_ancestor" ->
                 ReachesMergeCheck(f, b) /\ Tip(f, b) \subseteq f.heads[main]
          [] q = "range_count" ->
                 ReachesMergeCheck(f, b) /\ ~(Tip(f, b) \subseteq f.heads[main])

\* the last get_branch_status returned a snapshot although a query it made
\* for branch last.name failed
FailureHit == ClassifiedFailing /\ QueryMade(last.at, last.name, last.query)

\* every branch other than the one with the failing query is classified as
\* without the failure, and the failure adds no error
OthersUnaffected ==
    /\ DOMAIN last.status = DOMAIN Classify(last.at)
    /\ \A k \in DOMAIN last.status \ {last.name} :
           last.status[k] = Classify(last.at)[k]

C16_NoInternalRefInSnapshot ==
    Classified => \A k \in DOMAIN last.status : ~IsInternalRef(k)

\* C17: a call of get_branch_status, whether it returns a snapshot or not,
\* leaves every local branch tip, the checked-out branch, the working tree
\* and the local and remote-tracking refs as they were
C17_ClassificationIsReadOnly ==
    last.op = "get_branch_status" =>
        /\ repo.heads = last.pre.heads
        /\ repo.current = last.pre.current
        /\ repo.dirty = last.pre.dirty
        /\ repo.stash = last.pre.stash
        /\ repo.remotes = last.pre.remotes

\* C18: two calls of get_branch_status in a row, with nothing done to the
\* repository by the user or the remote in between, return identical
\* snapshots (same keys, same status per key), or both none
C18_ClassificationIsIdempotent ==
    last.op = "get_branch_status_twice" =>
        /\ last.raised2 = last.raised
        /\ last.status2 = last.status

\* both calls returned a snapshot that classifies f/a, and the first call
\* itself changed the repository
C18_Witness ==
    /\ last.op = "get_branch_status_twice"
    /\ ~last.raised
    /\ fa \in DOMAIN last.status
    /\ last.at # last.pre

\* the elements of a sequence
Range(seq) == {seq[i] : i \in 1..Len(seq)}

\* arb clean --no-interactive with the default options (--protect main, no
\* --force) on the repository the last arb list ran on, same answer typed
DefaultClean == cli_clean(last.pre, <<main>>, FALSE, TRUE, last.answers[1], "")

\* C19: the branches arb list marks as cleanable are the branches that
\* arb clean with the default options plans and, non-interactively, deletes
C19_ListAgreesWithClean ==
    (last.op = "cli_list" /\ last.exit = 0) =>
        /\ DefaultClean.exit = 0
        /\ DOMAIN DefaultClean.table = last.cleanable
        /\ Range(DefaultClean.deleted) = last.cleanable

\* the same agreement, for the repositories in which no branch and no
\* remote-tracking branch has a tag of the same name
ListAgreesWithCleanWithoutTags ==
    (last.op = "cli_list" /\ last.exit = 0 /\ last.pre.tags = {}) =>
        /\ DefaultClean.exit = 0
        /\ DOMAIN DefaultClean.table = last.cleanable
        /\ Range(DefaultClean.deleted) = last.cleanable

\* local main of repository f lacks a commit of origin/main
Behind(f) ==
    /\ main \in DOMAIN f.heads /\ main \in DOMAIN f.remotes
    /\ ~(f.remotes[main] \subseteq f.heads[main])

\* arb list found main behind and asked whether to update it
ListAsked == last.op = "cli_list" /\ last.answers[1] # ""

\* get_branch_status on a main that is behind returns no snapshot and raises;
\* arb list answered other than 'y' exits with code 1 and leaves main as
\* it was
BehindIsRaisedAndDeclinedIsKept ==
    /\ (last.op = "get_branch_status" /\ Behind(last.at))
           => last.raised /\ last.status = <<>>
    /\ (ListAsked /\ last.answers[1] # "y")
           => last.exit = 1 /\ repo.heads[main] = last.pre.heads[main]

\* C20 as stated: ... and arb list answered 'y' updates main, classifies
\* again and exits with code 0
C20_MainBehindIsHandled ==
    /\ BehindIsRaisedAndDeclinedIsKept
    /\ (ListAsked /\ last.answers[1] = "y")
           => /\ last.exit = 0
              /\ ~Behind(repo)
              /\ main \in DOMAIN last.status

\* C20 amended: arb list answered 'y' tries to update main; it classifies
\* again and exits with code 0 exactly when main is no longer behind
\* afterwards, and exits with code 1 without a snapshot otherwise
C20_MainBehindIsHandledIfUpdateSucceeds ==
    /\ BehindIsRaisedAndDeclinedIsKept
    /\ (ListAsked /\ last.answers[1] = "y")
           => /\ last.exit \in {0, 1}
              /\ last.exit = 0 <=> ~Behind(repo)
              /\ last.exit = 0 <=> main \in DOMAIN last.status

\* arb list answered 'y' brought main up to date and listed the branches
C20_Witness ==
    /\ ListAsked /\ last.answers[1] = "y"
    /\ last.exit = 0
    /\ Behind(last.pre) \/ last.pre.remotes # last.pre.server
    /\ repo.heads[main] # last.pre.heads[main]
    /\ fa \in DOMAIN last.status

\* the last operation was arb list or arb clean
ArbRan == last.op \in {"arb_list", "arb_clean"}

\* the repository opened and the classification of the run produced a
\* snapshot (at once, or after the update of main the user agreed to)
ArbClassified ==
    /\ ArbRan
    /\ last.kind = "worktree"
    /\ cli_list(last.pre, last.answers[1]).exit = 0

\* no branch was deleted, locally or on the remote
NothingDeleted ==
    /\ DOMAIN repo.heads = DOMAIN last.pre.heads
    /\ DOMAIN repo.server = DOMAIN last.pre.server

\* C21: list and clean exit with code 0 when the repository opens and is
\* classified, whether the deletion is confirmed, cancelled or not asked
\* for; they exit with a non-zero code when the repository cannot be opened
\* or cannot be classified, and then no branch has been deleted
C21_ExitCodes ==
    ArbRan =>
        /\ ArbClassified => last.exit = 0
        /\ ~ArbClassified => last.exit # 0
        /\ last.exit # 0 => NothingDeleted

\* the same exit codes, for the runs in which the deletion was not confirmed
\* at the prompt
ExitCodesUnlessConfirmed ==
    (ArbRan /\ last.answers[2] # "y") =>
        /\ ArbClassified => last.exit = 0
        /\ ~ArbClassified => last.exit # 0
        /\ last.exit # 0 => NothingDeleted

\* the last operation started on a repository whose remote cannot be fetched
FetchFailed == last.op # "none" /\ ~last.pre.url_ok

\* a failed fetch is fatal for get_branch_status, arb list and arb clean:
\* they end with an error, without a snapshot and without deleting a branch
FetchFailureIsFatalForArb ==
    FetchFailed =>
        /\ last.op = "get_branch_status" => last.raised /\ last.status = <<>>
        /\ last.op \in {"arb_list", "arb_clean"} =>
               last.exit # 0 /\ last.status = <<>> /\ last.deleted = <<>>
        /\ last.op \in {"get_branch_status", "arb_list", "arb_clean"} =>
               repo = last.pre

\* C22: a fetch/prune failure is fatal for every operation that needs the
\* state of the remote: get_branch_status, arb list, arb clean and
\* git-cleanup end without classifying and without deleting any branch
C22_FetchFailureIsFatal ==
    /\ FetchFailureIsFatalForArb
    /\ (FetchFailed /\ last.op = "cleanup_main") =>
           last.plan = <<>> /\ NothingDeleted

\* C23: in every snapshot main and origin/main, when present, have the
\* sentinel (empty) status
C23_MainHasSentinelStatus ==
    Classified =>
        /\ main \in DOMAIN last.status => last.status[main] = EMPTY
        /\ Origin(main) \in DOMAIN last.status
               => last.status[Origin(main)] = EMPTY

\* a snapshot taken on another branch, with a main that has a commit
\* origin/main lacks, holds both with the sentinel status
C23_Witness ==
    /\ Classified
    /\ last.at.current = fa
    /\ ~(last.at.heads[main] \subseteq last.at.remotes[main])
    /\ last.status[main] = EMPTY
    /\ last.status[Origin(main)] = EMPTY

\* a snapshot was returned while a branch other than main was checked out
ClassifiedOnBranch ==
    Classified /\ last.at.current \notin {main, NoBranch}

\* C24: in every snapshot the current branch, when it is not main, is
\* classified Unmerged
C24_CurrentIsUnmerged ==
    ClassifiedOnBranch =>
        /\ last.at.current \in DOMAIN last.status
        /\ last.status[last.at.current] = UNMERGED

\* the same, for a current branch that has no tag of its name: it is
\* Unmerged even when it is an ancestor of main or its upstream is gone
CurrentIsUnmergedWithoutTag ==
    (ClassifiedOnBranch /\ last.at.current \notin last.at.tags) =>
        /\ last.at.current \in DOMAIN last.status
        /\ last.status[last.at.current] = UNMERGED

\* the branch _delete_branch was called for did not exist: no local branch
\* of that name, or no branch of that name on the remote
DeletedNonexistent ==
    /\ last.op = "_delete_branch"
    /\ IF startswith(last.name, originPrefix)
       THEN ShortName(last.name) \notin DOMAIN last.pre.server
       ELSE last.name \notin DOMAIN last.pre.heads

\* C25: _delete_branch on a local or remote branch that does not exist
\* returns False and leaves the local and the remote branches as they were
C25_DeleteNonexistentIsNoOp ==
    DeletedNonexistent =>
        /\ ~last.ok
        /\ repo.heads = last.pre.heads
        /\ repo.server = last.pre.server
        /\ repo.remotes = last.pre.remotes

\* _delete_branch was called for origin/f/a after f/a, once fetched, had
\* been deleted on the remote
C25_Witness ==
    /\ DeletedNonexistent
    /\ last.name = Origin(fa)
    /\ last.pre.lastSync[fa] # {}
    /\ ~last.ok

\* the remote-tracking branches of origin other than origin/main that have
\* no local branch of their name in the snapshot
RemoteOnly ==
    {n \in DOMAIN last.at.remotes \ {main} : n \notin DOMAIN last.status}

\* C26: a remote-tracking branch other than origin/main that has no local
\* counterpart in the snapshot is a key of the snapshot under its origin/
\* name; its status is Merged when every commit of its tip is in main,
\* Unmerged otherwise, and never Gone
C26_RemoteBranchIsMergeChecked ==
    Classified =>
        \A n \in RemoteOnly :
            /\ RemoteShort(last.at, Origin(n)) \in DOMAIN last.status
            /\ last.status[RemoteShort(last.at, Origin(n))] =
                   IF last.at.remotes[n] \subseteq last.at.heads[main]
                   THEN MERGED ELSE UNMERGED

\* a snapshot taken after the local f/a was deleted: origin/f/a is a key,
\* Merged, with a tip that is behind origin/main
C26_Witness ==
    /\ Classified
    /\ fa \in RemoteOnly
    /\ fa \notin DOMAIN last.at.heads
    /\ last.at.remotes[fa] # last.at.remotes[main]
    /\ last.status[Origin(fa)] = MERGED

\* _update_main_branch returned or raised
UpdatedMain == last.op = "_update_main_branch"

\* C27: whenever _update_main_branch returns or raises, what was checked
\* out before the call (a branch, or a detached HEAD) is checked out again,
\* the uncommitted changes are back and no stash entry is left over
C27_UpdateRestoresCheckout ==
    UpdatedMain =>
        /\ repo.current = last.pre.current
        /\ repo.dirty = last.pre.dirty
        /\ repo.stash = last.pre.stash

\* the same for a call made while a branch is checked out
UpdateRestoresCheckedOutBranch ==
    (UpdatedMain /\ last.pre.current # NoBranch) =>
        /\ repo.current = last.pre.current
        /\ repo.dirty = last.pre.dirty
        /\ repo.stash = last.pre.stash

\* for a call made on a detached HEAD the changes are restored and the
\* stash is popped, on main
UpdateFromDetachedEndsOnMain ==
    (UpdatedMain /\ last.pre.current = NoBranch) =>
        /\ repo.current = main
        /\ repo.dirty = last.pre.dirty
        /\ repo.stash = last.pre.stash

\* git-cleanup ran
CleanupRan == last.op = "cleanup_main" /\ last.loaded # <<>>

\* the protected branches of the configuration are still protected, in
\* their order, before the patterns of --protect
ProtectIsAddedToConfigured ==
    CleanupRan =>
        /\ Len(last.cfg.protected_branches) >= Len(last.loaded.protected_branches)
        /\ SubSeq(last.cfg.protected_branches, 1,
                  Len(last.loaded.protected_branches))
               = last.loaded.protected_branches

\* C28: when git-cleanup is run without --dry-run the configured
\* dry_run_by_default is in effect, without --no-interactive the configured
\* interactive is in effect, and the patterns of --protect are added to the
\* configured protected branches
C28_ConfiguredDefaultsStayInEffect ==
    CleanupRan =>
        /\ ~last.dry_run =>
               last.cfg.dry_run_by_default = last.loaded.dry_run_by_default
        /\ last.interactive =>
               last.cfg.interactive = last.loaded.interactive
        /\ ProtectIsAddedToConfigured

\* a run without --dry-run under a configuration that makes dry runs the
\* default gives no deleting command
ConfiguredDryRunDeletesNothing ==
    (CleanupRan /\ ~last.dry_run /\ last.loaded.dry_run_by_default) =>
        \A i \in 1..Len(last.cmds) :
            last.cmds[i].cmd \notin {"delete_branch", "delete_remote_branch"}

\* BranchOperations.delete_branch returned or raised
OperationsDeleted == last.op = "BranchOperations.delete_branch"

\* the conditions of a deletion, on the repository before the call: the
\* branch exists, is not checked out, is not in protected_branches, and the
\* branch it tracks on origin, if it tracks one, can be deleted there
MayDelete ==
    /\ last.name \in DOMAIN last.pre.heads
    /\ last.name # last.pre.current
    /\ \A i \in 1..Len(last.protect) : last.protect[i] # last.name
    /\ last.pre.upstream[last.name] = "origin" =>
           last.name \in DOMAIN last.pre.server

\* the local branch is there before the call and not after it
LocalBranchDeleted ==
    /\ last.name \in DOMAIN last.pre.heads
    /\ last.name \notin DOMAIN repo.heads

\* C29: delete_branch deletes the local branch only under the conditions
\* of MayDelete, after the deletion on the remote; in every other case it
\* raises GitError and the local branches are the ones before the call
C29_DeleteOnlyWhenAllowed ==
    OperationsDeleted =>
        /\ LocalBranchDeleted =>
               /\ MayDelete
               /\ last.pre.upstream[last.name] = "origin" =>
                      last.name \notin DOMAIN repo.server
        /\ ~MayDelete =>
               /\ last.error = "GitError"
               /\ repo.heads = last.pre.heads

\* the same, with any exception in place of GitError
DeleteOnlyWhenAllowedOrRaise ==
    OperationsDeleted =>
        /\ LocalBranchDeleted =>
               /\ MayDelete
               /\ last.pre.upstream[last.name] = "origin" =>
                      last.name \notin DOMAIN repo.server
        /\ ~MayDelete =>
               /\ last.error # "none"
               /\ repo.heads = last.pre.heads

\* the same as C29 for a call made while a branch is checked out
DeleteOnlyWhenAllowedOnBranch ==
    (OperationsDeleted /\ last.pre.current # NoBranch) =>
        /\ LocalBranchDeleted =>
               /\ MayDelete
               /\ last.pre.upstream[last.name] = "origin" =>
                      last.name \notin DOMAIN repo.server
        /\ ~MayDelete =>
               /\ last.error = "GitError"
               /\ repo.heads = last.pre.heads

\* the remote-tracking branch of the checked-out branch is in the snapshot
\* clean planned from, matches no pattern of the protect list by its name
\* or its short name, and is Merged, or Unmerged with force set
RemoteOfCurrentQualifies ==
    /\ Planned
    /\ last.at.current # NoBranch
    /\ Origin(last.at.current) \in DOMAIN last.status
    /\ \A i \in 1..Len(last.protect) :
           /\ ~Glob(Origin(last.at.current), last.protect[i])
           /\ ~Glob(last.at.current, last.protect[i])
    /\ \/ last.status[Origin(last.at.current)] = MERGED
       \/ last.status[Origin(last.at.current)] = UNMERGED /\ last.force

\* C30: only the entry named like the current branch is excluded from the
\* plan: origin/<current>, when it qualifies, is in the plan, and a
\* non-interactive clean deletes the branch on the remote
C30_RemoteOfCurrentIsPlanned ==
    RemoteOfCurrentQualifies =>
        /\ last.at.current \notin DOMAIN last.plan
        /\ Origin(last.at.current) \in DOMAIN last.plan
        /\ ~last.interactive =>
               /\ last.at.current \notin DOMAIN repo.server
               /\ \E i \in 1..Len(last.deleted) :
                      last.deleted[i] = Origin(last.at.current)
               /\ last.at.current \in DOMAIN repo.heads

\* a non-interactive clean run on f/a deleted f/a on the remote
C30_Witness ==
    /\ RemoteOfCurrentQualifies
    /\ ~last.interactive
    /\ last.at.current = fa
    /\ fa \in DOMAIN last.pre.server
    /\ fa \notin DOMAIN repo.server

====
